---- MODULE Spec2Model ----
(***************************************************************************)
(* Model of backloggd-ps5-pro-maintainer: the title normaliser, the list   *)
(* comparison, the total-count probes, the Backloggd pagination loop and    *)
(* the main program that runs them.  Titles are sequences of one-character  *)
(* strings so that normalisation is computed character by character.        *)
(***************************************************************************)
EXTENDS Integers, Sequences, FiniteSets, TLC

VARIABLES norm, cmp, tot, cfg, tw, nav, psx,
          mainPc, exitCode, psPc, psBrowser, psGames,
          pc, browser, session, failure, totalGames, paginationStrategy, currentPage,
          hasNextPage, allGames, seenUrls, url, navFrom, extractions, timedOut, warnings,
          comparisonResult, notifications

vars == <<norm, cmp, tot, cfg, tw, nav, psx,
          mainPc, exitCode, psPc, psBrowser, psGames,
          pc, browser, session, failure, totalGames, paginationStrategy, currentPage,
          hasNextPage, allGames, seenUrls, url, navFrom, extractions, timedOut, warnings,
          comparisonResult, notifications>>

\* the variables of the main program and its two scrapers
progVars == <<mainPc, exitCode, psPc, psBrowser, psGames,
              pc, browser, session, failure, totalGames, paginationStrategy, currentPage,
              hasNextPage, allGames, seenUrls, url, navFrom, extractions, timedOut, warnings,
              comparisonResult, notifications>>

(***************************************************************************)
(* Bounds of the model.                                                    *)
(***************************************************************************)
MaxTitleLen == 5      \* longest input string given to normalizeTitle
MaxList == 2          \* longest game list given to compareGameLists
MaxPerPage == 2       \* most tiles one rendered page yields
MaxCollected == 3     \* most entries a modelled traversal collects
MaxEntries == 2       \* longest list in game-mappings.json and manual-additions.json
MaxTweetTitle == 250  \* longest title given to formatGameTweet
MaxTweetUrl == 40     \* longest url given to formatGameTweet
MaxLinks == 3         \* most concept links the PlayStation Store page holds

(***************************************************************************)
(* Characters and strings.                                                 *)
(***************************************************************************)
UpperChars == <<"A", "B", "C", "D", "E", "F", "G", "H", "I", "J", "K", "L", "M",
                "N", "O", "P", "Q", "R", "S", "T", "U", "V", "W", "X", "Y", "Z">>
LowerChars == <<"a", "b", "c", "d", "e", "f", "g", "h", "i", "j", "k", "l", "m",
                "n", "o", "p", "q", "r", "s", "t", "u", "v", "w", "x", "y", "z">>
DigitChars == <<"0", "1", "2", "3", "4", "5", "6", "7", "8", "9">>

Range(s) == {s[i] : i \in 1..Len(s)}

\* the characters the regular-expression class \s matches (and trim removes)
IsSpace(c) == c \in {" ", "\t", "\n"}

\* [a-z0-9\s]
IsKept(c) == c \in Range(LowerChars) \/ c \in Range(DigitChars) \/ IsSpace(c)

ToLowerChar(c) ==
    IF \E i \in 1..Len(UpperChars) : UpperChars[i] = c
    THEN LowerChars[CHOOSE i \in 1..Len(UpperChars) : UpperChars[i] = c]
    ELSE c

\* String.prototype.toLowerCase
toLowerCase(s) == [i \in 1..Len(s) |-> ToLowerChar(s[i])]

\* .replace(/[^a-z0-9\s]/g, '')
removeSpecial(s) == SelectSeq(s, IsKept)

\* .replace(/\s+/g, ' '): every maximal run of whitespace becomes one space
RECURSIVE collapseSpaces(_)
collapseSpaces(s) ==
    IF s = <<>> THEN <<>>
    ELSE IF IsSpace(Head(s))
         THEN IF Len(s) > 1 /\ IsSpace(s[2])
              THEN collapseSpaces(Tail(s))
              ELSE <<" ">> \o collapseSpaces(Tail(s))
         ELSE <<Head(s)>> \o collapseSpaces(Tail(s))

RECURSIVE trimStart(_)
trimStart(s) ==
    IF s # <<>> /\ IsSpace(Head(s)) THEN trimStart(Tail(s)) ELSE s

RECURSIVE trimEnd(_)
trimEnd(s) ==
    IF s # <<>> /\ IsSpace(s[Len(s)]) THEN trimEnd(SubSeq(s, 1, Len(s) - 1)) ELSE s

\* String.prototype.trim
trim(s) == trimEnd(trimStart(s))

\* a normaliser that collapses whitespace before it removes the special characters
normalizeTitleCollapseFirst(title) ==
    trim(removeSpecial(collapseSpaces(toLowerCase(title))))

normalizeTitle(title) ==
    trim(collapseSpaces(removeSpecial(toLowerCase(title))))

(***************************************************************************)
(* normalizeTitle applied to arbitrary short strings, then to its own      *)
(* result.                                                                 *)
(***************************************************************************)
TitleAlphabet == {"a", "B", "7", " ", "\t", "-"}

RECURSIVE StringsUpTo(_)
StringsUpTo(n) ==
    IF n = 0 THEN {<<>>}
    ELSE LET shorter == StringsUpTo(n - 1)
         IN  shorter \cup {Append(s, c) : s \in {t \in shorter : Len(t) = n - 1},
                                          c \in TitleAlphabet}

NormIdle == [pc |-> "idle", input |-> <<>>, once |-> <<>>, twice |-> <<>>]

NormInit == norm \in {[pc |-> "start", input |-> s, once |-> <<>>, twice |-> <<>>] :
                        s \in StringsUpTo(MaxTitleLen)}

NormalizeOnce ==
    /\ norm.pc = "start"
    /\ norm' = [norm EXCEPT !.pc = "once", !.once = normalizeTitle(norm.input)]
    /\ UNCHANGED <<cmp, tot, cfg, tw, nav, psx, progVars>>

NormalizeTwice ==
    /\ norm.pc = "once"
    /\ norm' = [norm EXCEPT !.pc = "twice", !.twice = normalizeTitle(norm.once)]
    /\ UNCHANGED <<cmp, tot, cfg, tw, nav, psx, progVars>>

(***************************************************************************)
(* Games, the alias table and the manual additions.                        *)
(***************************************************************************)
NoUrl == ""     \* url: undefined

GrandTheftAutoV == <<"G", "r", "a", "n", "d", " ", "T", "h", "e", "f", "t", " ",
                     "A", "u", "t", "o", " ", "V">>
GtaV == <<"G", "T", "A", " ", "V">>
CallOfDuty == <<"C", "a", "l", "l", " ", "o", "f", " ", "D", "u", "t", "y", ":", " ",
                "B", "l", "a", "c", "k", " ", "O", "p", "s", " ", "6">>
AstroBot == <<"A", "s", "t", "r", "o", " ", "B", "o", "t">>
AstroBotShout == <<"A", "S", "T", "R", "O", " ", "B", "O", "T", "!">>

Game(t, u) == [title |-> t, url |-> u]

Max(S) == CHOOSE x \in S : \A y \in S : y <= x

\* TitleMapper.loadMappings: the keys of psStoreToBackloggd (a later entry replaces
\* an earlier one with the same lower-cased key)
psStoreToBackloggdGet(mappings, key) ==
    LET hits == {i \in 1..Len(mappings) : toLowerCase(mappings[i].psStoreTitle) = key}
    IN  IF hits = {} THEN <<>> ELSE mappings[Max(hits)].backloggdTitle

backloggdToPsStoreGet(mappings, key) ==
    LET hits == {i \in 1..Len(mappings) : toLowerCase(mappings[i].backloggdTitle) = key}
    IN  IF hits = {} THEN <<>> ELSE mappings[Max(hits)].psStoreTitle

\* a lookup that takes the title as the key, without lower-casing it
mapPsStoreToBackloggdExact(mappings, psStoreTitle) ==
    LET found == psStoreToBackloggdGet(mappings, psStoreTitle)
    IN  IF found # <<>> THEN found ELSE psStoreTitle

\* TitleMapper.mapPsStoreToBackloggd: get(key) || psStoreTitle
mapPsStoreToBackloggd(mappings, psStoreTitle) ==
    LET found == psStoreToBackloggdGet(mappings, toLowerCase(psStoreTitle))
    IN  IF found # <<>> THEN found ELSE psStoreTitle

\* TitleMapper.mapBackloggdToPsStore: get(key) || backloggdTitle
mapBackloggdToPsStore(mappings, backloggdTitle) ==
    LET found == backloggdToPsStoreGet(mappings, toLowerCase(backloggdTitle))
    IN  IF found # <<>> THEN found ELSE backloggdTitle

\* ManualAdditionsManager.isManuallyAdded
isManuallyAdded(additions, backloggdTitle) ==
    \E i \in 1..Len(additions) :
        toLowerCase(additions[i].backloggdTitle) = toLowerCase(backloggdTitle)

(***************************************************************************)
(* compareGameLists.                                                       *)
(***************************************************************************)
\* the keys of a Map built from the titles as they are
TitleKeysRaw(games) == {games[i].title : i \in 1..Len(games)}

\* the keys of a Map built by forEach(game => map.set(normalizeTitle(game.title), game))
TitleKeys(games) == {normalizeTitle(games[i].title) : i \in 1..Len(games)}

\* a comparison that reports the synced games last to first
compareGameListsSyncReversed(psStoreGames, backloggdGames) ==
    LET keys == {normalizeTitle(backloggdGames[i].title) : i \in 1..Len(backloggdGames)}
        psKeys == {normalizeTitle(psStoreGames[i].title) : i \in 1..Len(psStoreGames)}
        synced == SelectSeq(psStoreGames, LAMBDA game : normalizeTitle(game.title) \in keys)
    IN  [gamesToAdd |->
             SelectSeq(psStoreGames, LAMBDA game : normalizeTitle(game.title) \notin keys),
         gamesToRemove |->
             SelectSeq(backloggdGames, LAMBDA game : normalizeTitle(game.title) \notin psKeys),
         alreadyInSync |-> [i \in 1..Len(synced) |-> synced[Len(synced) + 1 - i]]]

\* a comparison that collects the synced games from the Backloggd side
compareGameListsSyncFromTarget(psStoreGames, backloggdGames) ==
    LET psStoreMap == TitleKeys(psStoreGames)
        backloggdMap == TitleKeys(backloggdGames)
        Missing(game) == normalizeTitle(game.title) \notin backloggdMap
        Erroneous(game) == normalizeTitle(game.title) \notin psStoreMap
        Synced(game) == normalizeTitle(game.title) \in psStoreMap
    IN  [gamesToAdd |-> SelectSeq(psStoreGames, Missing),
         gamesToRemove |-> SelectSeq(backloggdGames, Erroneous),
         alreadyInSync |-> SelectSeq(backloggdGames, Synced)]

compareGameLists(psStoreGames, backloggdGames) ==
    LET psStoreMap == TitleKeys(psStoreGames)
        backloggdMap == TitleKeys(backloggdGames)
        Missing(game) == normalizeTitle(game.title) \notin backloggdMap
        Erroneous(game) == normalizeTitle(game.title) \notin psStoreMap
        Synced(game) == normalizeTitle(game.title) \in backloggdMap
    IN  [gamesToAdd |-> SelectSeq(psStoreGames, Missing),
         gamesToRemove |-> SelectSeq(backloggdGames, Erroneous),
         alreadyInSync |-> SelectSeq(psStoreGames, Synced)]

EmptyResult == [gamesToAdd |-> <<>>, gamesToRemove |-> <<>>, alreadyInSync |-> <<>>]

\* the records either scraper can hand to the comparison
CmpGames == {Game(GrandTheftAutoV, "ps/gta"), Game(GtaV, "bl/gta"),
             Game(CallOfDuty, "bl/cod"), Game(AstroBot, "ps/astro"),
             Game(AstroBotShout, "bl/astro")}

RECURSIVE SeqsUpTo(_, _)
SeqsUpTo(S, n) ==
    IF n = 0 THEN {<<>>}
    ELSE LET shorter == SeqsUpTo(S, n - 1)
         IN  shorter \cup {Append(s, x) : s \in {t \in shorter : Len(t) = n - 1}, x \in S}

GtaAlias == [psStoreTitle |-> GrandTheftAutoV, backloggdTitle |-> GtaV]
CodAddition == [backloggdTitle |-> CallOfDuty]

CmpIdle == [pc |-> "idle", psStoreGames |-> <<>>, backloggdGames |-> <<>>,
            mappings |-> <<>>, additions |-> <<>>, result |-> EmptyResult]

CmpInit ==
    cmp \in {[pc |-> "start", psStoreGames |-> ps, backloggdGames |-> bl,
              mappings |-> m, additions |-> a, result |-> EmptyResult] :
                ps \in SeqsUpTo(CmpGames, MaxList), bl \in SeqsUpTo(CmpGames, MaxList),
                m \in {<<>>, <<GtaAlias>>}, a \in {<<>>, <<CodAddition>>}}

Compare ==
    /\ cmp.pc = "start"
    /\ cmp' = [cmp EXCEPT !.pc = "done",
                          !.result = compareGameLists(cmp.psStoreGames, cmp.backloggdGames)]
    /\ UNCHANGED <<norm, tot, cfg, tw, nav, psx, progVars>>

(***************************************************************************)
(* extractTotalCount.  A probed text is a sequence of tokens: numbers      *)
(* (\d+) and words, separated by whitespace; words are kept lower-cased,   *)
(* as both regular expressions carry the i flag.                           *)
(***************************************************************************)
Infinity == -1      \* the value extractTotalCount returns when no probe yields a total

Num(n) == [k |-> "num", n |-> n, w |-> ""]
Word(w) == [k |-> "word", n |-> 0, w |-> w]

Min(S) == CHOOSE x \in S : \A y \in S : x <= y

\* the positions where /(\d+)\s+(?:de|of)\s+(\d+)/i matches
OfDePositions(text) ==
    {i \in 1..(Len(text) - 2) :
        /\ text[i].k = "num"
        /\ text[i + 1].k = "word" /\ text[i + 1].w \in {"de", "of"}
        /\ text[i + 2].k = "num"}

\* the positions where /(\d+)\s+games/i matches
GamesPositions(text) ==
    {i \in 1..(Len(text) - 1) :
        /\ text[i].k = "num"
        /\ text[i + 1].k = "word" /\ text[i + 1].w = "games"}

\* a parse that reads the first group of the X of Y match instead of the second
ParseTotalFirstGroup(text) ==
    IF OfDePositions(text) # {} THEN {text[Min(OfDePositions(text))].n}
    ELSE IF GamesPositions(text) # {} THEN {text[Min(GamesPositions(text))].n}
    ELSE {}

\* the body of `if (text) { ... }`: the set holding the total parsed, or no total
ParseTotal(text) ==
    IF OfDePositions(text) # {} THEN {text[Min(OfDePositions(text)) + 2].n}
    ELSE IF GamesPositions(text) # {} THEN {text[Min(GamesPositions(text))].n}
    ELSE {}

\* a probe: textContent timed out (it throws), or it returned a text (empty for null)
Timeout == [timedOut |-> TRUE, text |-> <<>>]
Text(t) == [timedOut |-> FALSE, text |-> t]

ProbeTotal(probe) == IF probe.timedOut THEN {} ELSE ParseTotal(probe.text)

\* for (const selector of possibleSelectors) { try ... catch { continue } } return Infinity
RECURSIVE extractTotalCountFrom(_, _)
extractTotalCountFrom(probes, i) ==
    IF i > Len(probes) THEN Infinity
    ELSE IF ProbeTotal(probes[i]) # {}
         THEN CHOOSE n \in ProbeTotal(probes[i]) : TRUE
         ELSE extractTotalCountFrom(probes, i + 1)

extractTotalCount(probes) == extractTotalCountFrom(probes, 1)

TxtMostrando == <<Word("mostrando"), Num(24), Word("de"), Num(195), Word("resultados")>>
TxtMostrandoTodos == <<Word("mostrando"), Word("todos"), Word("de"), Word("resultados")>>
TxtGames == <<Num(199), Word("games")>>
TxtGamesOf == <<Num(12), Word("of"), Num(20), Num(199), Word("games")>>
TxtShowing == <<Word("showing"), Num(24), Word("of"), Num(50), Word("results")>>
TxtShowingAll == <<Word("showing"), Word("all"), Word("of"), Word("results")>>
TxtResults == <<Word("results")>>

\* what each of the five selectors of possibleSelectors can find, in their order
ProbeOutcomes ==
    << {Timeout, Text(TxtMostrando), Text(TxtMostrandoTodos)},
       {Timeout, Text(TxtGames), Text(TxtGamesOf)},
       {Timeout, Text(TxtShowing), Text(TxtShowingAll)},
       {Timeout, Text(<<>>), Text(TxtResults), Text(TxtShowing)},
       {Timeout, Text(TxtGames), Text(TxtResults)} >>

ProbeVectors ==
    {<<p1, p2, p3, p4, p5>> : p1 \in ProbeOutcomes[1], p2 \in ProbeOutcomes[2],
                              p3 \in ProbeOutcomes[3], p4 \in ProbeOutcomes[4],
                              p5 \in ProbeOutcomes[5]}

TotIdle == [pc |-> "idle", probes |-> <<>>, totalGames |-> Infinity]

TotInit == tot \in {[pc |-> "start", probes |-> v, totalGames |-> Infinity] :
                      v \in ProbeVectors}

ExtractTotal ==
    /\ tot.pc = "start"
    /\ tot' = [tot EXCEPT !.pc = "done", !.totalGames = extractTotalCount(tot.probes)]
    /\ UNCHANGED <<norm, cmp, cfg, tw, nav, psx, progVars>>

(***************************************************************************)
(* Loading the alias table and the manual additions: the constructors of   *)
(* TitleMapper and ManualAdditionsManager, then one lookup of a title.     *)
(***************************************************************************)
Undefined == <<"undefined">>    \* a property the JSON entry does not have

GtaFive == <<"G", "T", "A", " ", "5">>

\* mapping.psStoreTitle.toLowerCase() or mapping.backloggdTitle.toLowerCase() throws a
\* TypeError, before either Map.set of the entry
MappingThrows(mapping) ==
    mapping.psStoreTitle = Undefined \/ mapping.backloggdTitle = Undefined

\* addition.backloggdTitle.toLowerCase() throws a TypeError
AdditionThrows(addition) == addition.backloggdTitle = Undefined

\* the number of entries forEach has put in the Maps when it returns or throws
mappingsProcessed(entries) ==
    LET bad == {i \in 1..Len(entries) : MappingThrows(entries[i])}
    IN  IF bad = {} THEN Len(entries) ELSE Min(bad) - 1

\* the number of entries forEach has put in the Set when it returns or throws
additionsProcessed(entries) ==
    LET bad == {i \in 1..Len(entries) : AdditionThrows(entries[i])}
    IN  IF bad = {} THEN Len(entries) ELSE Min(bad) - 1

\* TitleMapper.loadMappings: whether the catch block runs
loadMappingsFails(data) ==
    ~data.present \/ mappingsProcessed(data.mappings) < Len(data.mappings)

\* TitleMapper.loadMappings: the entries the two Maps hold afterwards, in insertion
\* order; the catch block logs and leaves the Maps as they are
loadMappings(data) ==
    IF data.present
    THEN SubSeq(data.mappings, 1, mappingsProcessed(data.mappings))
    ELSE <<>>

\* ManualAdditionsManager.loadAdditions: whether the catch block runs
loadAdditionsFails(data) ==
    ~data.present \/ additionsProcessed(data.additions) < Len(data.additions)

\* ManualAdditionsManager.loadAdditions: the entries the Set holds afterwards
loadAdditions(data) ==
    IF data.present
    THEN SubSeq(data.additions, 1, additionsProcessed(data.additions))
    ELSE <<>>

MappingEntries ==
    {GtaAlias,
     [psStoreTitle |-> toLowerCase(GrandTheftAutoV), backloggdTitle |-> GtaFive],
     [psStoreTitle |-> AstroBot, backloggdTitle |-> <<>>],
     [psStoreTitle |-> Undefined, backloggdTitle |-> GtaV],
     [psStoreTitle |-> AstroBot, backloggdTitle |-> Undefined]}

AdditionEntries ==
    {CodAddition, [backloggdTitle |-> AstroBot], [backloggdTitle |-> Undefined]}

\* game-mappings.json: with a mappings array, or without one
MappingsData ==
    {[present |-> TRUE, mappings |-> m] : m \in SeqsUpTo(MappingEntries, MaxEntries)}
        \cup {[present |-> FALSE, mappings |-> <<>>]}

\* manual-additions.json: with an additions array, or without one
AdditionsData ==
    {[present |-> TRUE, additions |-> a] : a \in SeqsUpTo(AdditionEntries, MaxEntries)}
        \cup {[present |-> FALSE, additions |-> <<>>]}

LookupTitles ==
    {GrandTheftAutoV, toLowerCase(GrandTheftAutoV), GtaV, toLowerCase(GtaV), GtaFive,
     AstroBot, CallOfDuty}

NoData == [present |-> FALSE, mappings |-> <<>>]
NoAdditionsData == [present |-> FALSE, additions |-> <<>>]

CfgIdle ==
    [pc |-> "idle", mappingsData |-> NoData, additionsData |-> NoAdditionsData,
     title |-> <<>>, mappings |-> <<>>, additions |-> <<>>,
     mappingsFailed |-> FALSE, additionsFailed |-> FALSE,
     toBackloggd |-> <<>>, toPsStore |-> <<>>, manuallyAdded |-> FALSE]

CfgInit ==
    cfg \in {[CfgIdle EXCEPT !.pc = "start", !.mappingsData = m, !.additionsData = a,
                             !.title = t] :
                m \in MappingsData, a \in AdditionsData, t \in LookupTitles}

\* new TitleMapper() and new ManualAdditionsManager(): neither constructor throws
Construct ==
    /\ cfg.pc = "start"
    /\ cfg' = [cfg EXCEPT !.pc = "loaded",
                          !.mappings = loadMappings(cfg.mappingsData),
                          !.mappingsFailed = loadMappingsFails(cfg.mappingsData),
                          !.additions = loadAdditions(cfg.additionsData),
                          !.additionsFailed = loadAdditionsFails(cfg.additionsData)]
    /\ UNCHANGED <<norm, cmp, tot, tw, nav, psx, progVars>>

\* the three lookups of one title
Lookup ==
    /\ cfg.pc = "loaded"
    /\ cfg' = [cfg EXCEPT !.pc = "looked",
                          !.toBackloggd = mapPsStoreToBackloggd(cfg.mappings, cfg.title),
                          !.toPsStore = mapBackloggdToPsStore(cfg.mappings, cfg.title),
                          !.manuallyAdded = isManuallyAdded(cfg.additions, cfg.title)]
    /\ UNCHANGED <<norm, cmp, tot, tw, nav, psx, progVars>>

(***************************************************************************)
(* TwitterService.formatGameTweet.  A text is the sequence of its UTF-16    *)
(* code units, which is what String.length counts.                          *)
(***************************************************************************)
TweetLimit == 280

\* the two code units of the game-pad emoji
Emoji == <<"D83C", "DFAE">>

\* `<emoji> New PS5 Pro Enhanced Game!\n`
TweetHead ==
    Emoji \o <<" ", "N", "e", "w", " ", "P", "S", "5", " ", "P", "r", "o", " ",
               "E", "n", "h", "a", "n", "c", "e", "d", " ", "G", "a", "m", "e", "!",
               "\n">>

\* '#PS5Pro #PlayStation #Gaming'
Hashtags ==
    <<"#", "P", "S", "5", "P", "r", "o", " ",
      "#", "P", "l", "a", "y", "S", "t", "a", "t", "i", "o", "n", " ",
      "#", "G", "a", "m", "i", "n", "g">>

\* String.prototype.substring(from, to) for 0 <= from <= to
substring(s, from, to) == SubSeq(s, from + 1, IF to < Len(s) THEN to ELSE Len(s))

formatGameTweet(game) ==
    LET baseText == TweetHead \o game.title
        tweet == baseText \o <<"\n", "\n">> \o Hashtags
        withUrl == IF game.url # <<>> /\ Len(tweet) + Len(game.url) + 2 < TweetLimit
                   THEN tweet \o <<"\n">> \o game.url
                   ELSE tweet
        maxTitleLength == TweetLimit - Len(baseText) + Len(game.title) - 3
        truncatedTitle == substring(game.title, 0, maxTitleLength) \o <<".", ".", ".">>
    IN  IF Len(withUrl) > TweetLimit
        THEN TweetHead \o truncatedTitle \o <<"\n", "\n">> \o Hashtags
        ELSE withUrl

\* a text of n code units
Chars(n, c) == [i \in 1..n |-> c]

TwIdle == [pc |-> "idle", game |-> Game(<<>>, <<>>), tweet |-> <<>>]

TwInit ==
    tw \in {[pc |-> "start", game |-> Game(Chars(t, "x"), Chars(u, "u")), tweet |-> <<>>] :
              t \in 0..MaxTweetTitle, u \in 0..MaxTweetUrl}

FormatTweet ==
    /\ tw.pc = "start"
    /\ tw' = [tw EXCEPT !.pc = "done", !.tweet = formatGameTweet(tw.game)]
    /\ UNCHANGED <<norm, cmp, tot, cfg, nav, psx, progVars>>

(***************************************************************************)
(* Pagination helpers: detectPaginationType and navigateToNextPage.  A URL *)
(* is described by what the helpers read of it: whether it holds page=N,    *)
(* offset=N, or ends in a numeric path segment /N, and the number N.        *)
(***************************************************************************)
PageSize == 24      \* the items per page navigateToNextPage assumes for offset=
MaxPages == 50      \* the safety limit of the pagination loop

Url(kind, n) == [kind |-> kind, n |-> n]
NoNav == Url("none", 0)

\* a detection that probes for the next control first
detectPaginationTypeButtonFirst(currentUrl, nextVisible) ==
    IF nextVisible THEN "button"
    ELSE IF currentUrl.kind \in {"page", "offset", "path"} THEN "url"
    ELSE "button"

\* detectPaginationType: the URL tests come first; with or without a visible next
\* control every other page is 'button'
detectPaginationType(currentUrl, nextVisible) ==
    IF currentUrl.kind \in {"page", "offset"} THEN "url"
    ELSE IF currentUrl.kind = "path" THEN "url"
    ELSE IF nextVisible THEN "button"
    ELSE "button"

\* the page number the URL branch of navigateToNextPage writes into the next URL
NextPageNumber(page) == page + 1

\* navigateToNextPage, URL branch: nextUrl
NextUrl(currentUrl, page) ==
    LET nextPage == NextPageNumber(page)
    IN  IF currentUrl.kind = "page" THEN Url("page", nextPage)
        ELSE IF currentUrl.kind = "offset" THEN Url("offset", nextPage * PageSize)
        ELSE IF currentUrl.kind = "path" THEN Url("path", nextPage)
        ELSE Url("page", nextPage)

\* navigateToNextPage, button branch: what the loop over nextButtonSelectors meets
\* (no control visible; the visible control disabled; click() throws, or times out, on
\* every visible control; a click followed by a settled wait, or by waits that both
\* time out and are swallowed by their .catch)
ButtonOutcomes ==
    {"notVisible", "disabled", "clickFails", "clickTimeout", "clicked", "clickedUnsettled"}

\* a navigation that takes a click that timed out for a page change
ButtonResultUnlessGone(outcome) == outcome \notin {"notVisible", "disabled", "clickFails"}

\* the value navigateToNextPage returns for it
ButtonResult(outcome) == outcome \in {"clicked", "clickedUnsettled"}

\* the wait of the button branch that timed out, if one did
ButtonTimedOut(outcome, before) ==
    IF outcome = "clickTimeout" THEN "click"
    ELSE IF outcome = "clickedUnsettled" THEN "settle"
    ELSE before

\* navigateToNextPage, url branch: what page.goto(nextUrl) does
GotoOutcomes == {"loaded", "gotoTimeout", "gotoFails"}

\* the length of nextButtonSelectors
NextButtonSelectors == 6

\* navigateToNextPage, button branch: what one pass of the loop over the selectors
\* meets (isVisible() false; isVisible() or click() throws; isDisabled() true; click()
\* followed by a wait that settles; click() followed by two waits that time out)
SelectorOutcomes == {"notVisible", "throws", "disabled", "clicked", "clickedUnsettled"}

\* a click whose waits must settle to count
ClickSucceedsIfSettled(outcome) == outcome = "clicked"

\* Promise.all([click(), Promise.race([waitForURL.catch, waitForLoadState.catch])])
\* resolves: the waits swallow their timeouts
ClickSucceeds(outcome) == outcome \in {"clicked", "clickedUnsettled"}

\* the loop over nextButtonSelectors from selector i on: the value returned and the
\* selector at which it returned (0: after the loop)
RECURSIVE navigateByButtonFrom(_, _)
navigateByButtonFrom(outcomes, i) ==
    IF i > Len(outcomes) THEN [ok |-> FALSE, at |-> 0]
    ELSE IF outcomes[i] = "disabled" THEN [ok |-> FALSE, at |-> i]
    ELSE IF ClickSucceeds(outcomes[i]) THEN [ok |-> TRUE, at |-> i]
    ELSE navigateByButtonFrom(outcomes, i + 1)

NavIdle == [pc |-> "idle", outcomes |-> <<>>, result |-> [ok |-> FALSE, at |-> 0]]

NavInit ==
    nav \in {[pc |-> "start", outcomes |-> o, result |-> [ok |-> FALSE, at |-> 0]] :
               o \in [1..NextButtonSelectors -> SelectorOutcomes]}

\* navigateToNextPage(page, 'button', currentPage)
NavigateByButton ==
    /\ nav.pc = "start"
    /\ nav' = [nav EXCEPT !.pc = "done", !.result = navigateByButtonFrom(nav.outcomes, 1)]
    /\ UNCHANGED <<norm, cmp, tot, cfg, tw, psx, progVars>>

(***************************************************************************)
(* scrapeBackloggdList: the tiles of a page and the duplicate filter.      *)
(***************************************************************************)
TitleA == <<"A">>
TitleB == <<"B">>

\* the tiles a rendered page can hold, after title.trim()
PageGames == {Game(TitleA, "bl/a"), Game(TitleB, "bl/b"), Game(TitleA, NoUrl),
              Game(<<>>, "bl/x")}

\* gamesOnPage.filter(...): the kept games and the grown seenUrls
\* a test that lets an entry through on its url alone
HasTitleOrUrl(game) == game.title # <<>> \/ game.url # NoUrl

\* `game.title === ''` negated: the test of both filters
HasTitle(game) == game.title # <<>>

RECURSIVE FilterNew(_, _)
FilterNew(gamesOnPage, seen) ==
    IF gamesOnPage = <<>> THEN [newGames |-> <<>>, seenUrls |-> seen]
    ELSE LET game == Head(gamesOnPage)
             keep == /\ HasTitle(game)
                     /\ ~(game.url # NoUrl /\ game.url \in seen)
             seen2 == IF keep /\ game.url # NoUrl THEN seen \cup {game.url} ELSE seen
             rest == FilterNew(Tail(gamesOnPage), seen2)
         IN  [newGames |-> (IF keep THEN <<game>> ELSE <<>>) \o rest.newGames,
              seenUrls |-> rest.seenUrls]

\* a final filter that keeps only the entries with a url
validGamesWithUrl(games) == SelectSeq(games, LAMBDA game : game.url # NoUrl)

\* allGames.filter((game) => game.title !== '')
validGames(games) == SelectSeq(games, HasTitle)

\* a loop whose counter skips a page number
NextPageIndexByTwo(page) == page + 2

\* a loop that forgets currentPage++
NextPageIndexStuck(page) == page

\* the page after currentPage++
NextPageIndex(page) == page + 1

\* the pages a render can show while the model still has room for their new games
PageContents ==
    {p \in SeqsUpTo(PageGames, MaxPerPage) :
        Len(allGames) + Len(FilterNew(p, seenUrls).newGames) <= MaxCollected}

\* the URLs BACKLOGGD_LIST_URL can stand for
StartUrls == {Url("plain", 0), Url("page", 1), Url("page", 3), Url("offset", 0),
              Url("path", 1), Url("path", 3)}

\* the probe results extractTotalCount can meet on the list page
AllTimeout == <<Timeout, Timeout, Timeout, Timeout, Timeout>>
ListProbes == {AllTimeout, <<Timeout, Text(<<Num(2), Word("games")>>), Timeout, Timeout, Timeout>>}

\* the lists scrapePlayStationStore can return
PsResults == {<<>>, <<Game(TitleA, "ps/a")>>}

(***************************************************************************)
(* scrapePlayStationStore: the in-page extraction over the concept links.  *)
(* A link is its href and the trimmed, non-empty lines of its text; none   *)
(* of the modelled lines holds 'precio', 'ahorra' or '<img', or is longer  *)
(* than 100 characters.                                                     *)
(***************************************************************************)
PriceLine == <<"5", "9", ",", "9", "9", " ", "€">>
Gratis == <<"G", "r", "a", "t", "i", "s">>
Extra == <<"E", "x", "t", "r", "a">>
Premium == <<"P", "r", "e", "m", "i", "u", "m">>

\* the tests under which the title scan skips a line
SkipLine(line) ==
    \/ "€" \in Range(line)
    \/ "%" \in Range(line)
    \/ Range(line) \subseteq Range(DigitChars) \cup {",", ".", " "}
    \/ Len(line) < 3
    \/ line \in {Gratis, Extra, Premium}

\* the title scan: the first line that is not skipped, '' when there is none
linkTitle(lines) ==
    LET kept == {i \in 1..Len(lines) : ~SkipLine(lines[i])}
    IN  IF kept = {} THEN <<>> ELSE lines[Min(kept)]

Href(abs, path) == [abs |-> abs, path |-> path]

\* url.startsWith('http') ? url : `https://store.playstation.com${url}`
absoluteUrl(href) == IF href.abs THEN href ELSE Href(TRUE, href.path)

\* links.forEach: skip an href already seen, mark it seen, scan for the title, push
\* when there is one
RECURSIVE extractLinks(_, _)
extractLinks(links, seen) ==
    IF links = <<>> THEN <<>>
    ELSE LET link == Head(links)
             title == linkTitle(link.lines)
         IN  IF link.href \in seen THEN extractLinks(Tail(links), seen)
             ELSE (IF title # <<>>
                   THEN <<[title |-> title, url |-> absoluteUrl(link.href)]>>
                   ELSE <<>>)
                      \o extractLinks(Tail(links), seen \cup {link.href})

ConceptLinks ==
    {[href |-> h, lines |-> l] :
        h \in {Href(FALSE, "/concept/1"), Href(FALSE, "/concept/2"), Href(TRUE, "/concept/3")},
        l \in {<<>>, <<PriceLine>>, <<PriceLine, AstroBot>>, <<GtaV>>}}

PsxIdle == [pc |-> "idle", links |-> <<>>, games |-> <<>>]

PsxInit ==
    psx \in {[pc |-> "start", links |-> l, games |-> <<>>] :
               l \in SeqsUpTo(ConceptLinks, MaxLinks)}

\* page.$$eval('a[href*="/concept/"]', ...) and the filter of empty titles
ExtractConceptLinks ==
    /\ psx.pc = "start"
    /\ psx' = [psx EXCEPT !.pc = "done", !.games = validGames(extractLinks(psx.links, {}))]
    /\ UNCHANGED <<norm, cmp, tot, cfg, tw, nav, progVars>>

(***************************************************************************)
(* The main program and its two scrapers.                                  *)
(***************************************************************************)
ProgIdle ==
    /\ mainPc = "idle" /\ exitCode = -1
    /\ psPc = "idle" /\ psBrowser = "none" /\ psGames = <<>>
    /\ pc = "idle" /\ browser = "none" /\ session = "none" /\ failure = "none"
    /\ totalGames = Infinity /\ paginationStrategy = "none" /\ currentPage = 0
    /\ hasNextPage = FALSE /\ allGames = <<>> /\ seenUrls = {}
    /\ url = NoNav /\ navFrom = NoNav /\ extractions = 0
    /\ timedOut = "none" /\ warnings = {}
    /\ comparisonResult = EmptyResult /\ notifications = <<>>

\* main() has been called and is about to await scrapePlayStationStore()
ProgInit ==
    /\ mainPc = "psScrape" /\ exitCode = -1
    /\ psPc = "launch" /\ psBrowser = "none" /\ psGames = <<>>
    /\ pc = "idle" /\ browser = "none" /\ session = "none" /\ failure = "none"
    /\ totalGames = Infinity /\ paginationStrategy = "none" /\ currentPage = 0
    /\ hasNextPage = FALSE /\ allGames = <<>> /\ seenUrls = {}
    /\ url = NoNav /\ navFrom = NoNav /\ extractions = 0
    /\ timedOut = "none" /\ warnings = {}
    /\ comparisonResult = EmptyResult /\ notifications = <<>>

psVars == <<psPc, psBrowser, psGames>>
loopVars == <<totalGames, paginationStrategy, currentPage, hasNextPage, allGames,
              seenUrls, url, navFrom, extractions, timedOut, warnings>>
tailVars == <<comparisonResult, notifications>>
otherVars == <<norm, cmp, tot, cfg, tw, nav, psx>>

\* main's catch block: process.exit(1)
MainCatch == mainPc' = "exited" /\ exitCode' = 1

\* scrapePlayStationStore: chromium.launch(), outside the try
PsLaunch ==
    /\ mainPc = "psScrape" /\ psPc = "launch"
    /\ \/ /\ psBrowser' = "open" /\ psPc' = "body"
          /\ UNCHANGED <<mainPc, exitCode>>
       \/ /\ psPc' = "thrown" /\ psBrowser' = "none"
          /\ MainCatch
    /\ UNCHANGED <<psGames, pc, browser, session, failure, loopVars, tailVars, otherVars>>

\* scrapePlayStationStore: the try block, its catch (rethrow) and finally (close)
PsScrape ==
    /\ mainPc = "psScrape" /\ psPc = "body" /\ psBrowser = "open"
    /\ psBrowser' = "closed"
    /\ \/ /\ \E games \in PsResults : psGames' = validGames(games)
          /\ psPc' = "returned"
          /\ mainPc' = "blScrape" /\ pc' = "launch"
          /\ UNCHANGED exitCode
       \/ /\ psPc' = "thrown"
          /\ MainCatch
          /\ UNCHANGED <<psGames, pc>>
    /\ UNCHANGED <<browser, session, failure, loopVars, tailVars, otherVars>>

\* a catch without the finally: the browser is left as it is
BlThrowsLeavingOpen(cause) ==
    /\ pc' = "thrown" /\ failure' = cause
    /\ browser' = browser
    /\ mainPc' = "exited" /\ exitCode' = 1

\* an error thrown inside scrapeBackloggdList's try: catch (log, rethrow), finally
\* (browser.close()), then main's catch
BlThrows(cause) ==
    /\ pc' = "thrown" /\ failure' = cause
    /\ browser' = "closed"
    /\ MainCatch

\* scrapeBackloggdList: chromium.launch(), outside the try
BlLaunch ==
    /\ mainPc = "blScrape" /\ pc = "launch"
    /\ \/ /\ browser' = "open" /\ session' = "alive" /\ pc' = "goto"
          /\ UNCHANGED <<mainPc, exitCode, failure>>
       \/ /\ pc' = "thrown" /\ failure' = "launch"
          /\ MainCatch
          /\ UNCHANGED <<browser, session>>
    /\ UNCHANGED <<psVars, loopVars, tailVars, otherVars>>

\* the browsing session ends while page operations are still to come
SessionDies ==
    /\ mainPc = "blScrape" /\ browser = "open" /\ session = "alive"
    /\ pc \in {"goto", "total", "extract", "navigate", "delay"}
    /\ session' = "dead"
    /\ UNCHANGED <<mainPc, exitCode, psVars, pc, browser, failure, loopVars, tailVars,
                   otherVars>>

\* browser.newPage(), page.goto(BACKLOGGD_LIST_URL), page.waitForSelector('.game-cover')
BlOpenList ==
    /\ mainPc = "blScrape" /\ pc = "goto"
    /\ IF session = "dead"
       THEN /\ BlThrows("session")
            /\ UNCHANGED <<session, url>>
       ELSE \/ /\ \E u \in StartUrls : url' = u
               /\ pc' = "total"
               /\ UNCHANGED <<mainPc, exitCode, browser, session, failure>>
            \/ /\ BlThrows("timeout")
               /\ UNCHANGED <<session, url>>
    /\ timedOut' = IF failure' = "timeout" THEN "load" ELSE timedOut
    /\ UNCHANGED <<psVars, totalGames, paginationStrategy, currentPage, hasNextPage,
                   allGames, seenUrls, navFrom, extractions, warnings, tailVars,
                   otherVars>>

\* extractTotalCount(page), the initial values of the collection, and
\* detectPaginationType(page)
BlPrepare ==
    /\ mainPc = "blScrape" /\ pc = "total"
    /\ IF session = "dead"
       THEN totalGames' = extractTotalCount(AllTimeout)
       ELSE \E probes \in ListProbes : totalGames' = extractTotalCount(probes)
    /\ allGames' = <<>> /\ seenUrls' = {}
    /\ currentPage' = 1 /\ hasNextPage' = TRUE
    /\ \E nextVisible \in (IF session = "dead" THEN {FALSE} ELSE BOOLEAN) :
          paginationStrategy' = detectPaginationType(url, nextVisible)
    /\ timedOut' = IF session = "dead" THEN timedOut ELSE "probe"
    /\ warnings' = IF totalGames' = Infinity THEN warnings \cup {"noTotal"} ELSE warnings
    /\ pc' = "extract"
    /\ UNCHANGED <<mainPc, exitCode, psVars, browser, session, failure, url, navFrom,
                   extractions, tailVars, otherVars>>

\* the passes of the loop body counted so far, counted no further than one past the limit
CountExtraction(n) == IF n > MaxPages THEN n ELSE n + 1

\* a completion check that also ends a loop that has collected nothing
collectedAllOrNone(total, count) == count = 0 \/ (total # Infinity /\ count >= total)

\* a completion check that wants more entries than the total
collectedAllStrict(total, count) == total # Infinity /\ count > total

\* `totalGames !== Infinity && allGames.length >= totalGames`
collectedAll(total, count) == total # Infinity /\ count >= total

\* one pass of the loop body down to the completion check: page.$$eval, the filter,
\* allGames.push and `if (totalGames !== Infinity && allGames.length >= totalGames)`
BlExtract ==
    /\ mainPc = "blScrape" /\ pc = "extract" /\ hasNextPage
    /\ IF session = "dead"
       THEN /\ BlThrows("session")
            /\ UNCHANGED <<session, hasNextPage, allGames, seenUrls, extractions>>
       ELSE \E gamesOnPage \in PageContents :
              LET f == FilterNew(gamesOnPage, seenUrls)
                  collected == allGames \o f.newGames
                  complete == collectedAll(totalGames, Len(collected))
              IN  /\ allGames' = collected
                  /\ seenUrls' = f.seenUrls
                  /\ extractions' = CountExtraction(extractions)
                  /\ hasNextPage' = ~complete
                  /\ pc' = IF complete THEN "finish" ELSE "navigate"
                  /\ UNCHANGED <<mainPc, exitCode, browser, session, failure>>
    /\ UNCHANGED <<psVars, totalGames, paginationStrategy, currentPage, url, navFrom,
                   timedOut, warnings, tailVars, otherVars>>

\* `hasNextPage = await navigateToNextPage(...)`: when it is false the loop ends (the
\* safety check does not fire, the while condition does), when it is true the rate
\* limiting delay comes next
AfterNavigate(ok) ==
    /\ hasNextPage' = ok
    /\ pc' = IF ok THEN "delay" ELSE "finish"

\* navigateToNextPage with the button strategy
BlNavigateButton ==
    /\ mainPc = "blScrape" /\ pc = "navigate" /\ paginationStrategy = "button"
    /\ IF session = "dead"
       THEN AfterNavigate(FALSE) /\ UNCHANGED timedOut
       ELSE \E outcome \in ButtonOutcomes :
              /\ AfterNavigate(ButtonResult(outcome))
              /\ timedOut' = ButtonTimedOut(outcome, timedOut)
    /\ UNCHANGED <<mainPc, exitCode, psVars, browser, session, failure, totalGames,
                   paginationStrategy, currentPage, allGames, seenUrls, url, navFrom,
                   extractions, warnings, tailVars, otherVars>>

\* navigateToNextPage with the url strategy
BlNavigateUrl ==
    /\ mainPc = "blScrape" /\ pc = "navigate" /\ paginationStrategy = "url"
    /\ \E outcome \in (IF session = "dead" THEN {"gotoFails"} ELSE GotoOutcomes) :
          LET loaded == outcome = "loaded"
          IN  /\ AfterNavigate(loaded)
              /\ url' = IF loaded THEN NextUrl(url, currentPage) ELSE url
              /\ navFrom' = IF loaded THEN url ELSE navFrom
              /\ timedOut' = IF outcome = "gotoTimeout" THEN "goto" ELSE timedOut
    /\ UNCHANGED <<mainPc, exitCode, psVars, browser, session, failure, totalGames,
                   paginationStrategy, currentPage, allGames, seenUrls, extractions,
                   warnings, tailVars, otherVars>>

\* `if (hasNextPage) { await page.waitForTimeout(2000); currentPage++; }`, then the
\* safety check; on a session that has ended the wait may reject
BlDelay ==
    /\ mainPc = "blScrape" /\ pc = "delay"
    /\ \/ /\ currentPage' = NextPageIndex(currentPage)
          /\ pc' = IF currentPage' > MaxPages THEN "finish" ELSE "extract"
          /\ warnings' = IF currentPage' > MaxPages
                         THEN warnings \cup {"maxPages"}
                         ELSE warnings
          /\ UNCHANGED <<mainPc, exitCode, browser, failure>>
       \/ /\ session = "dead"
          /\ BlThrows("session")
          /\ UNCHANGED <<currentPage, warnings>>
    /\ UNCHANGED <<psVars, session, totalGames, paginationStrategy, hasNextPage, allGames,
                   seenUrls, url, navFrom, extractions, timedOut, tailVars, otherVars>>

\* after the loop: the valid games are returned, finally closes the browser
BlReturn ==
    /\ mainPc = "blScrape" /\ pc = "finish"
    /\ allGames' = validGames(allGames)
    /\ browser' = "closed"
    /\ pc' = "returned"
    /\ mainPc' = "compare"
    /\ UNCHANGED <<exitCode, psVars, session, failure, totalGames, paginationStrategy,
                   currentPage, hasNextPage, seenUrls, url, navFrom, extractions,
                   timedOut, warnings, tailVars, otherVars>>

\* main: compareGameLists(psStoreResult.games, backloggdResult.games)
MainCompare ==
    /\ mainPc = "compare"
    /\ comparisonResult' = compareGameLists(psGames, allGames)
    /\ mainPc' = "notify"
    /\ UNCHANGED <<exitCode, psVars, pc, browser, session, failure, loopVars,
                   notifications, otherVars>>

Result(service, success) == [service |-> service, success |-> success]

\* a manager that tweets on any change
SendNotificationsOnAnyChange(result, telegramOk, twitterOk) ==
    <<[service |-> "telegram", success |-> telegramOk]>>
        \o (IF result.gamesToAdd # <<>> \/ result.gamesToRemove # <<>>
            THEN <<[service |-> "twitter", success |-> twitterOk]>>
            ELSE <<>>)

\* NotificationManager.sendNotifications: the results it returns
SendNotifications(result, telegramOk, twitterOk) ==
    <<Result("telegram", telegramOk)>>
        \o (IF result.gamesToAdd # <<>> THEN <<Result("twitter", twitterOk)>> ELSE <<>>)

\* a main whose notification error reaches the outer catch
ExitAfterNotifyPropagating(results) ==
    IF \E i \in 1..Len(results) : results[i].service = "threw" THEN 1 ELSE 0

\* main: whatever step 5 did (its error is caught and logged), process.exit(0)
ExitAfterNotify(results) == 0

\* main: step 5 inside its own try/catch, then the summary and process.exit
MainNotify ==
    /\ mainPc = "notify"
    /\ \/ \E telegramOk \in BOOLEAN, twitterOk \in BOOLEAN :
             notifications' = SendNotifications(comparisonResult, telegramOk, twitterOk)
       \/ notifications' = <<Result("threw", FALSE)>>
    /\ mainPc' = "exited"
    /\ exitCode' = ExitAfterNotify(notifications')
    /\ UNCHANGED <<psVars, pc, browser, session, failure, loopVars, comparisonResult,
                   otherVars>>

(***************************************************************************)
(* Specifications.                                                         *)
(***************************************************************************)
Init ==
    ProgInit /\ norm = NormIdle /\ cmp = CmpIdle /\ tot = TotIdle /\ cfg = CfgIdle
        /\ tw = TwIdle /\ nav = NavIdle /\ psx = PsxIdle

Next ==
    \/ PsLaunch \/ PsScrape
    \/ BlLaunch \/ SessionDies \/ BlOpenList \/ BlPrepare \/ BlExtract
    \/ BlNavigateButton \/ BlNavigateUrl \/ BlDelay \/ BlReturn
    \/ MainCompare \/ MainNotify

\* one run of main()
Spec == Init /\ [][Next]_vars

\* the run never stops while a step is left: every awaited operation settles
FairSpec == Spec /\ WF_vars(Next)

NormSpecInit ==
    NormInit /\ cmp = CmpIdle /\ tot = TotIdle /\ cfg = CfgIdle /\ tw = TwIdle
        /\ nav = NavIdle /\ psx = PsxIdle /\ ProgIdle

NormNext == NormalizeOnce \/ NormalizeTwice

\* normalizeTitle on every short string, then on its own result
NormSpec == NormSpecInit /\ [][NormNext]_vars

CmpSpecInit ==
    CmpInit /\ norm = NormIdle /\ tot = TotIdle /\ cfg = CfgIdle /\ tw = TwIdle
        /\ nav = NavIdle /\ psx = PsxIdle /\ ProgIdle

CmpNext == Compare

\* compareGameLists on every pair of short lists
CmpSpec == CmpSpecInit /\ [][CmpNext]_vars

TotSpecInit ==
    TotInit /\ norm = NormIdle /\ cmp = CmpIdle /\ cfg = CfgIdle /\ tw = TwIdle
        /\ nav = NavIdle /\ psx = PsxIdle /\ ProgIdle

TotNext == ExtractTotal

\* extractTotalCount on every vector of probe results
TotSpec == TotSpecInit /\ [][TotNext]_vars

CfgSpecInit ==
    CfgInit /\ norm = NormIdle /\ cmp = CmpIdle /\ tot = TotIdle /\ tw = TwIdle
        /\ nav = NavIdle /\ psx = PsxIdle /\ ProgIdle

CfgNext == Construct \/ Lookup

\* the two configuration services constructed from every short data file, then asked
\* about one title
CfgSpec == CfgSpecInit /\ [][CfgNext]_vars

TwSpecInit ==
    TwInit /\ norm = NormIdle /\ cmp = CmpIdle /\ tot = TotIdle /\ cfg = CfgIdle
        /\ nav = NavIdle /\ psx = PsxIdle /\ ProgIdle

TwNext == FormatTweet

\* formatGameTweet on games with titles and urls of every length up to the bounds
TwSpec == TwSpecInit /\ [][TwNext]_vars

NavSpecInit ==
    NavInit /\ norm = NormIdle /\ cmp = CmpIdle /\ tot = TotIdle /\ cfg = CfgIdle
        /\ tw = TwIdle /\ psx = PsxIdle /\ ProgIdle

NavNext == NavigateByButton

\* the button branch of navigateToNextPage on every vector of selector outcomes
NavSpec == NavSpecInit /\ [][NavNext]_vars

PsxSpecInit ==
    PsxInit /\ norm = NormIdle /\ cmp = CmpIdle /\ tot = TotIdle /\ cfg = CfgIdle
        /\ tw = TwIdle /\ nav = NavIdle /\ ProgIdle

PsxNext == ExtractConceptLinks

\* the PlayStation Store extraction on every short list of concept links
PsxSpec == PsxSpecInit /\ [][PsxNext]_vars

(***************************************************************************)
(* Properties.                                                             *)
(***************************************************************************)

\* C1: once the pagination loop of scrapeBackloggdList has started, it eventually
\* ends, and it ends with the collected entries returned unless the session died.
C1_LoopTerminates == (pc = "extract") ~> (pc = "returned" \/ failure = "session")

\* the loop was stopped by the safety limit alone: no total, navigation always succeeded
C1_Witness ==
    pc = "returned" /\ totalGames = Infinity /\ hasNextPage /\ currentPage = MaxPages + 1

\* the identity key of two entries is the same: the url if present, else the
\* normalized title
SameKey(g, h) ==
    IF g.url # NoUrl /\ h.url # NoUrl THEN g.url = h.url
    ELSE IF g.url = NoUrl /\ h.url = NoUrl
         THEN normalizeTitle(g.title) = normalizeTitle(h.title)
         ELSE FALSE

\* C2: no two entries of a returned traversal result share the same identity key.
C2_NoDuplicateKeys ==
    pc = "returned" =>
        \A i, j \in 1..Len(allGames) : i # j => ~SameKey(allGames[i], allGames[j])

Count(seq, x) == Cardinality({i \in 1..Len(seq) : seq[i] = x})

\* C3: gamesToAdd and alreadyInSync partition the source list: every source entry
\* is in exactly one of them, as often as it is in the source, and nothing else is.
C3_Partition ==
    cmp.pc = "done" =>
        /\ Range(cmp.result.gamesToAdd) \cap Range(cmp.result.alreadyInSync) = {}
        /\ Range(cmp.result.gamesToAdd) \cup Range(cmp.result.alreadyInSync)
              = Range(cmp.psStoreGames)
        /\ \A g \in CmpGames :
              Count(cmp.result.gamesToAdd, g) + Count(cmp.result.alreadyInSync, g)
                 = Count(cmp.psStoreGames, g)

\* a source list with two equal-normalizing titles, one list of each kind non-empty
C3_Witness ==
    /\ cmp.pc = "done"
    /\ cmp.psStoreGames = <<Game(AstroBot, "ps/astro"), Game(GrandTheftAutoV, "ps/gta")>>
    /\ cmp.backloggdGames = <<Game(AstroBotShout, "bl/astro")>>
    /\ cmp.result.gamesToAdd # <<>> /\ cmp.result.alreadyInSync # <<>>

\* the source entry's key through the alias table is a key of the target lookup
AliasInSync(game) ==
    normalizeTitle(mapPsStoreToBackloggd(cmp.mappings, game.title))
        \in TitleKeys(cmp.backloggdGames)

AliasToAdd(game) == ~AliasInSync(game)

\* C4: a source entry is in alreadyInSync exactly when normalize(mapSourceToTarget(title))
\* is a key of the target lookup, else in gamesToAdd; Grand Theft Auto V against GTA V
\* with the alias Grand Theft Auto V -> GTA V is in sync, nothing to add or remove.
C4_AliasAwareMatching ==
    cmp.pc = "done" =>
        /\ cmp.result.alreadyInSync = SelectSeq(cmp.psStoreGames, AliasInSync)
        /\ cmp.result.gamesToAdd = SelectSeq(cmp.psStoreGames, AliasToAdd)
        /\ ( /\ cmp.psStoreGames = <<Game(GrandTheftAutoV, "ps/gta")>>
             /\ cmp.backloggdGames = <<Game(GtaV, "bl/gta")>>
             /\ cmp.mappings = <<GtaAlias>> )
           => cmp.result = [gamesToAdd |-> <<>>, gamesToRemove |-> <<>>,
                            alreadyInSync |-> <<Game(GrandTheftAutoV, "ps/gta")>>]

\* the target entry matches no source entry, neither directly nor through the alias table
NoCounterpart(game) ==
    /\ normalizeTitle(game.title) \notin TitleKeys(cmp.psStoreGames)
    /\ normalizeTitle(game.title) \notin
          {normalizeTitle(mapPsStoreToBackloggd(cmp.mappings, cmp.psStoreGames[i].title)) :
              i \in 1..Len(cmp.psStoreGames)}

\* C5: an exempt target entry without a source counterpart is in neither gamesToRemove
\* nor alreadyInSync, and every non-exempt one without a counterpart is in gamesToRemove.
C5_Exemption ==
    cmp.pc = "done" =>
        \A i \in 1..Len(cmp.backloggdGames) :
            LET game == cmp.backloggdGames[i]
            IN  NoCounterpart(game) =>
                  IF isManuallyAdded(cmp.additions, game.title)
                  THEN /\ game \notin Range(cmp.result.gamesToRemove)
                       /\ game \notin Range(cmp.result.alreadyInSync)
                  ELSE game \in Range(cmp.result.gamesToRemove)

\* only a-z, 0-9 and single interior spaces, no space at either end
IsNormalForm(s) ==
    /\ \A i \in 1..Len(s) :
          s[i] = " " \/ s[i] \in Range(LowerChars) \/ s[i] \in Range(DigitChars)
    /\ s # <<>> => (s[1] # " " /\ s[Len(s)] # " ")
    /\ \A i \in 1..(Len(s) - 1) : ~(s[i] = " " /\ s[i + 1] = " ")

\* C6: normalizeTitle is idempotent, its result is in normal form, and the empty
\* string maps to the empty string.
C6_NormalizeIdempotent ==
    /\ norm.pc \in {"once", "twice"} =>
          /\ IsNormalForm(norm.once)
          /\ norm.input = <<>> => norm.once = <<>>
    /\ norm.pc = "twice" => norm.twice = norm.once

\* upper case, punctuation and a whitespace run are all in the input
C6_Witness ==
    /\ norm.pc = "twice"
    /\ norm.input = <<"B", " ", "-", "\t", "a">>
    /\ norm.once = <<"b", " ", "a">>

\* C7: a UrlParam navigation loads the URL whose page parameter or trailing path
\* segment is the current URL's plus one (.../category/abc/3 is followed by .../4).
C7_UrlIncrement ==
    (navFrom.kind \in {"page", "path"}) => (url.kind = navFrom.kind /\ url.n = navFrom.n + 1)

\* the totals the sample texts stand for
SampleTotal(text) ==
    CASE text = TxtShowing -> {50}
      [] text = TxtGames -> {199}
      [] text = TxtMostrando -> {195}
      [] text = TxtGamesOf -> {20}
      [] OTHER -> {}

Yields(probe) == ~probe.timedOut /\ SampleTotal(probe.text) # {}

C9_ExitCodes ==
    mainPc = "exited" =>
        /\ exitCode \in {0, 1}
        /\ (psPc = "returned" /\ pc = "returned") => exitCode = 0
        /\ exitCode = 1 <=> (psPc = "thrown" \/ pc = "thrown")

\* changes were found and a notification failed or threw, and main has exited
C9_Witness ==
    /\ mainPc = "exited" /\ exitCode = 0
    /\ comparisonResult.gamesToRemove # <<>>
    /\ notifications = <<Result("threw", FALSE)>>

\* C10: when the browsing session dies during a traversal the scraper returns nothing,
\* and main neither compares nor notifies.
C10_SessionFaultFatal ==
    session = "dead" =>
        /\ pc # "returned"
        /\ mainPc \notin {"compare", "notify"}
        /\ comparisonResult = EmptyResult /\ notifications = <<>>

\* C11: when loading the alias table or the manual additions fails, the service holds
\* an empty table: both mapping functions return the title given and no title is
\* manually added.
C11_LoadFaultLeavesEmptyTable ==
    cfg.pc = "looked" =>
        /\ cfg.mappingsFailed =>
              /\ cfg.mappings = <<>>
              /\ cfg.toBackloggd = cfg.title /\ cfg.toPsStore = cfg.title
        /\ cfg.additionsFailed => (cfg.additions = <<>> /\ ~cfg.manuallyAdded)

\* the entries of the loaded alias table whose PS Store title (Backloggd title) equals
\* the looked-up title ignoring case
PsHits == {i \in 1..Len(cfg.mappings) :
             toLowerCase(cfg.mappings[i].psStoreTitle) = toLowerCase(cfg.title)}
BgHits == {i \in 1..Len(cfg.mappings) :
             toLowerCase(cfg.mappings[i].backloggdTitle) = toLowerCase(cfg.title)}

\* C12 (as stated): mapPsStoreToBackloggd(t) returns the backloggdTitle of a table entry
\* whose psStoreTitle equals t ignoring case whenever there is one, and t otherwise;
\* mapBackloggdToPsStore likewise in the other direction.
C12_LookupAsStated ==
    cfg.pc = "looked" =>
        /\ IF PsHits # {}
           THEN \E i \in PsHits : cfg.toBackloggd = cfg.mappings[i].backloggdTitle
           ELSE cfg.toBackloggd = cfg.title
        /\ IF BgHits # {}
           THEN \E i \in BgHits : cfg.toPsStore = cfg.mappings[i].psStoreTitle
           ELSE cfg.toPsStore = cfg.title

\* C12 (amended): mapPsStoreToBackloggd(t) returns, in the table's casing, the
\* backloggdTitle of the last table entry whose psStoreTitle equals t ignoring case when
\* there is such an entry and that title is not empty, and t otherwise;
\* mapBackloggdToPsStore likewise in the other direction.
C12_Lookup ==
    cfg.pc = "looked" =>
        /\ cfg.toBackloggd =
              IF PsHits # {} /\ cfg.mappings[Max(PsHits)].backloggdTitle # <<>>
              THEN cfg.mappings[Max(PsHits)].backloggdTitle
              ELSE cfg.title
        /\ cfg.toPsStore =
              IF BgHits # {} /\ cfg.mappings[Max(BgHits)].psStoreTitle # <<>>
              THEN cfg.mappings[Max(BgHits)].psStoreTitle
              ELSE cfg.title

\* a title was found under another casing than the table's, and the table's casing of
\* the alias came back
C12_Witness ==
    /\ cfg.pc = "looked"
    /\ cfg.title = toLowerCase(GrandTheftAutoV)
    /\ cfg.mappings = <<GtaAlias>>
    /\ cfg.toBackloggd = GtaV

\* some entry of the list has the same normalized title as the game
HasSameTitle(games, game) ==
    \E i \in 1..Len(games) : normalizeTitle(games[i].title) = normalizeTitle(game.title)

\* C13: with an empty alias table a source entry is in alreadyInSync iff some target
\* entry has the same normalized title, and a target entry that is not manually added
\* is in gamesToRemove iff no source entry has the same normalized title.
C13_EmptyAliasDirectMatch ==
    (cmp.pc = "done" /\ cmp.mappings = <<>>) =>
        /\ \A i \in 1..Len(cmp.psStoreGames) :
              LET game == cmp.psStoreGames[i]
              IN  Count(cmp.result.alreadyInSync, game) > 0
                      <=> HasSameTitle(cmp.backloggdGames, game)
        /\ \A j \in 1..Len(cmp.backloggdGames) :
              LET game == cmp.backloggdGames[j]
              IN  ~isManuallyAdded(cmp.additions, game.title) =>
                      (Count(cmp.result.gamesToRemove, game) > 0
                          <=> ~HasSameTitle(cmp.psStoreGames, game))

\* no alias: Astro Bot is in sync through ASTRO BOT!, and Call of Duty, not manually
\* added, is to be removed
C13_Witness ==
    /\ cmp.pc = "done" /\ cmp.mappings = <<>> /\ cmp.additions = <<>>
    /\ cmp.psStoreGames = <<Game(AstroBot, "ps/astro")>>
    /\ cmp.backloggdGames = <<Game(AstroBotShout, "bl/astro"), Game(CallOfDuty, "bl/cod")>>
    /\ cmp.result.alreadyInSync = <<Game(AstroBot, "ps/astro")>>
    /\ cmp.result.gamesToRemove = <<Game(CallOfDuty, "bl/cod")>>

\* the keys of the source-side lookup: normalize(mapPsStoreToBackloggd(title)) of every
\* source entry
MappedSourceKeys ==
    {normalizeTitle(mapPsStoreToBackloggd(cmp.mappings, cmp.psStoreGames[i].title)) :
        i \in 1..Len(cmp.psStoreGames)}

\* C15: a target entry is in gamesToRemove exactly when its normalized title is not a
\* key of the source-side lookup built from the mapped source titles and it is not
\* manually added; so the alias target of a source entry is never in gamesToRemove.
C15_RemoveRule ==
    cmp.pc = "done" =>
        \A j \in 1..Len(cmp.backloggdGames) :
            LET game == cmp.backloggdGames[j]
            IN  Count(cmp.result.gamesToRemove, game) > 0
                    <=> /\ normalizeTitle(game.title) \notin MappedSourceKeys
                        /\ ~isManuallyAdded(cmp.additions, game.title)

\* C14: formatGameTweet returns a text of at most 280 characters, whatever the lengths
\* of the game's title and url.
C14_TweetWithinLimit == tw.pc = "done" => Len(tw.tweet) <= TweetLimit

\* C16: the page counter starts at 1, never decreases, changes only by +1 in the step
\* that follows a successful navigation and its delay, is unchanged by a navigation
\* that fails, and never exceeds 51.
C16_PageCounter ==
    [][ /\ currentPage' >= currentPage
        /\ currentPage' # currentPage =>
              \/ pc = "total" /\ currentPage' = 1
              \/ pc = "delay" /\ hasNextPage /\ currentPage' = currentPage + 1
        /\ (pc = "navigate" /\ ~hasNextPage') => currentPage' = currentPage
        /\ currentPage' <= MaxPages + 1 ]_vars

\* the counter reached 51 and the safety limit stopped the loop
C16_Witness == pc = "finish" /\ currentPage = MaxPages + 1 /\ "maxPages" \in warnings

\* C17: throughout a traversal the seen-key set has as many keys as there are
\* collected entries.
C17_SeenKeysMatchCollected ==
    pc \in {"extract", "navigate", "delay", "finish"} =>
        Cardinality(seenUrls) = Len(allGames)

\* C18: with offset= in the URL every navigation loads the offset of the current URL
\* plus 24.
C18_OffsetAdvance ==
    navFrom.kind = "offset" => (url.kind = "offset" /\ url.n = navFrom.n + PageSize)

C20_MismatchWarned ==
    (pc = "returned" /\ totalGames # Infinity /\ Len(allGames) # totalGames) =>
        (failure = "none" /\ "countMismatch" \in warnings)

\* C21: an extraction step ends the loop exactly when a total was detected and the
\* collected entries have reached it, and then nothing follows but the return: no
\* navigation, delay or extraction; without a total it always goes on to navigate.
C21_CompletionCheck ==
    [][ /\ (pc = "extract" /\ pc' \notin {"extract", "thrown"}) =>
              /\ pc' = "finish" <=> (totalGames # Infinity /\ Len(allGames') >= totalGames)
              /\ pc' # "finish" => (pc' = "navigate" /\ hasNextPage')
        /\ (pc = "finish" /\ pc' # pc) => pc' = "returned" ]_vars

\* the first page already held the two entries of the detected total
C21_Witness ==
    /\ pc = "finish" /\ totalGames = 2 /\ Len(allGames) = 2
    /\ extractions = 1 /\ currentPage = 1 /\ ~hasNextPage

\* the selectors at which the loop does not just go on to the next one
Decisive == {i \in 1..Len(nav.outcomes) : nav.outcomes[i] \notin {"notVisible", "throws"}}

\* C22: the button navigation reports no next page when no control is visible, when
\* the first control it can act on is disabled, or when every click fails; otherwise
\* it has clicked the first control that is visible, enabled and clickable, and
\* reports success whether or not the waits after the click settled.
C22_ButtonNavigation ==
    nav.pc = "done" =>
        IF Decisive = {}
        THEN nav.result = [ok |-> FALSE, at |-> 0]
        ELSE LET first == Min(Decisive)
             IN  /\ nav.result.at = first
                 /\ nav.result.ok <=> nav.outcomes[first] # "disabled"

\* the first selector was not visible, the second was clicked and neither wait settled
C22_Witness ==
    /\ nav.pc = "done"
    /\ nav.outcomes[1] = "notVisible" /\ nav.outcomes[2] = "clickedUnsettled"
    /\ nav.result = [ok |-> TRUE, at |-> 2]

\* C30: for every href among the concept links, the extraction returns exactly one
\* entry with its url when some link with that href has a title, in whatever order
\* the links come, and no entry when none has.
C30_NoGameLostToDedup ==
    psx.pc = "done" =>
        \A i \in 1..Len(psx.links) :
            LET href == psx.links[i].href
                titled == \E j \in 1..Len(psx.links) :
                             /\ psx.links[j].href = href
                             /\ linkTitle(psx.links[j].lines) # <<>>
                entries == {k \in 1..Len(psx.games) :
                              psx.games[k].url = absoluteUrl(href)}
            IN  Cardinality(entries) = IF titled THEN 1 ELSE 0

\* C23: when loading the next URL fails, the loop ends with the collected entries
\* untouched, and the return that follows hands back all of them without an error.
C23_UrlLoadFailure ==
    [][ /\ (pc = "navigate" /\ paginationStrategy = "url" /\ pc' # pc /\ ~hasNextPage') =>
              (pc' = "finish" /\ allGames' = allGames /\ failure' = "none")
        /\ (pc = "finish" /\ pc' # pc) =>
              /\ pc' = "returned" /\ mainPc' = "compare"
              /\ allGames' = allGames /\ failure' = "none" ]_vars

\* no total, two entries collected on two pages, then a load that failed without timing
\* out: both entries were returned
C23_Witness ==
    /\ pc = "returned" /\ paginationStrategy = "url" /\ totalGames = Infinity
    /\ ~hasNextPage /\ timedOut = "probe" /\ failure = "none"
    /\ extractions = 2 /\ Len(allGames) = 2

RECURSIVE IsSubsequence(_, _)
\* a can be had from b by leaving entries out
IsSubsequence(a, b) ==
    IF a = <<>> THEN TRUE
    ELSE IF b = <<>> THEN FALSE
    ELSE IF Head(a) = Head(b) THEN IsSubsequence(Tail(a), Tail(b))
    ELSE IsSubsequence(a, Tail(b))

\* C26: gamesToAdd and alreadyInSync are subsequences of the source list and
\* gamesToRemove is a subsequence of the target list: input order is kept and every
\* entry reported is the input record itself, the source's for a matched pair.
C26_OrderAndProvenance ==
    cmp.pc = "done" =>
        /\ IsSubsequence(cmp.result.gamesToAdd, cmp.psStoreGames)
        /\ IsSubsequence(cmp.result.alreadyInSync, cmp.psStoreGames)
        /\ IsSubsequence(cmp.result.gamesToRemove, cmp.backloggdGames)

\* two matched pairs that the target lists in the other order and under other records
C26_Witness ==
    /\ cmp.pc = "done"
    /\ cmp.psStoreGames = <<Game(AstroBot, "ps/astro"), Game(CallOfDuty, "bl/cod")>>
    /\ cmp.backloggdGames = <<Game(CallOfDuty, "bl/cod"), Game(AstroBotShout, "bl/astro")>>
    /\ cmp.result.alreadyInSync = cmp.psStoreGames

\* C27: the two scrapers never have a browser open at the same time, each has closed
\* its browser when it has returned or thrown, and the Backloggd browser is launched
\* only after the PlayStation Store scraper has returned.
C27_OneSessionAtATime ==
    /\ ~(psBrowser = "open" /\ browser = "open")
    /\ psPc \in {"returned", "thrown"} => psBrowser # "open"
    /\ pc \in {"returned", "thrown"} => browser # "open"
    /\ browser # "none" => (psPc = "returned" /\ psBrowser = "closed")

\* the Backloggd scraper threw while its session was alive, and its browser is closed
C27_Witness ==
    pc = "thrown" /\ failure = "timeout" /\ browser = "closed" /\ psBrowser = "closed"

C29_NotificationRouting ==
    (mainPc = "exited" /\ notifications # <<>> /\ notifications[1].service # "threw") =>
        /\ notifications[1].service = "telegram"
        /\ Len(notifications) = IF comparisonResult.gamesToAdd # <<>> THEN 2 ELSE 1
        /\ Len(notifications) = 2 => notifications[2].service = "twitter"

\* Telegram failed and the tweets were still attempted
C29_Witness ==
    /\ mainPc = "exited"
    /\ notifications = <<Result("telegram", FALSE), Result("twitter", TRUE)>>

====
